---- MODULE Spec2Model ----
(***************************************************************************)
(* A model of the task-glitch task store (the useTasks hook) and of the    *)
(* pure ranking / analytics functions it is built on                        *)
(* (src/src/hooks/useTasks.ts).                                             *)
(*                                                                          *)
(* JavaScript values are represented as follows:                            *)
(*   - null / undefined      the empty sequence << >>                       *)
(*   - a present optional v  the one-element sequence << v >>               *)
(*   - an object             a function from field names to values, so that *)
(*                           a Partial<Task> is a function on a subset of   *)
(*                           the field names and object spread is a merge   *)
(*   - a timestamp           a natural number (ticks of the clock)          *)
(***************************************************************************)
EXTENDS Integers, Sequences, FiniteSets, TLC

VARIABLES
    tasks,        \* useState<Task[]>              useTasks.ts:48
    loading,      \* useState(true)                useTasks.ts:49
    error,        \* useState<string | null>       useTasks.ts:50
    lastDeleted,  \* useState<Task | null>         useTasks.ts:51
    mounted,      \* is a hook instance alive (React lifecycle)
    instance,     \* number of hook instances created so far; the live one
    inflight,     \* instances whose load() has been called and not settled
    uuids,        \* number of crypto.randomUUID() draws so far
    now,          \* the wall clock, new Date()
    ops,          \* number of calls made to the store's mutation callbacks
    arg,          \* argument handed to a pure function under test
    res           \* value the pure function returned

vars == <<tasks, loading, error, lastDeleted, mounted, instance, inflight,
          uuids, now, ops, arg, res>>

storeVars == <<tasks, loading, error, lastDeleted, mounted, instance,
               inflight, uuids, now, ops>>

----------------------------------------------------------------------------
(* Bounds of the model *)

MaxOps == 3         \* calls of addTask, updateTask, deleteTask, undoDelete
                    \* and clearLastDeleted explored in one behaviour
MaxNow == 2         \* last tick of the clock
MaxMounts == 2      \* hook instances explored
MaxSortLen == 3     \* longest list handed to sortTasks
MaxFunnelLen == 4   \* longest list handed to computeFunnel
MaxWeeklyLen == 3   \* longest list handed to computeThroughputByWeek

----------------------------------------------------------------------------
(* JavaScript values *)

NULL == << >>

Some(v) == << v >>

\* {...a, ...b}: the fields of b override those of a
Spread(a, b) ==
    [f \in (DOMAIN a) \cup (DOMAIN b) |-> IF f \in DOMAIN b THEN b[f] ELSE a[f]]

----------------------------------------------------------------------------
(* Inputs explored *)

\* TaskFormPayload values handed to addTask; id and notes are optional
Payloads ==
    { [title |-> "Alpha", revenue |-> 100, timeTaken |-> 0,
       priority |-> "High", status |-> "Done"],
      [id |-> "a", title |-> "Alpha", revenue |-> 100, timeTaken |-> 2,
       priority |-> "High", status |-> "Todo"] }

\* Partial<Task> values handed to updateTask
Patches ==
    { [status |-> "Done"],
      [status |-> "In Progress", completedAt |-> NULL],
      [timeTaken |-> 0],
      [id |-> "b"] }

\* ids handed to updateTask and deleteTask; "zz" is never the id of a task
TargetIds == {"a", "uuid-1", "zz"}

\* what fetch('/tasks.json') can come to
\*   ok          a 2xx response whose body is a non-empty array
\*   empty       a 2xx response whose body is []
\*   absent      a non-2xx response (res.ok is false)
\*   unreachable fetch() rejects, or res.json() throws
Outcomes == {"ok", "empty", "absent", "unreachable"}

\* the body of tasks.json in the "ok" outcome
FetchedData ==
    << [id |-> "a", title |-> "Alpha", revenue |-> 100, timeTaken |-> 2,
        priority |-> "High", status |-> "Todo", notes |-> NULL,
        createdAt |-> 1, completedAt |-> NULL] >>

NetworkError == "Failed to fetch"

----------------------------------------------------------------------------
(* The store: useTasks *)

SeedCount == 50

\* generateSalesTasks(n) of utils/seed: n generated tasks with distinct ids
generateSalesTasks(n) ==
    [i \in 1..n |->
        [id |-> "seed-" \o ToString(i), title |-> "Task " \o ToString(i),
         revenue |-> 100 * i, timeTaken |-> 1 + (i % 5),
         priority |-> "Medium", status |-> "Todo", notes |-> NULL,
         createdAt |-> 1, completedAt |-> NULL]]

\* generateSalesTasks(50), the list the load falls back to
SeedTasks == generateSalesTasks(SeedCount)

\* crypto.randomUUID(): a value no earlier draw returned
randomUUID == "uuid-" \o ToString(uuids + 1)

\* the Task object addTask builds from its payload
NewTask(payload, id) ==
    [id          |-> id,
     title       |-> payload.title,
     revenue     |-> payload.revenue,
     timeTaken   |-> IF payload.timeTaken > 0 THEN payload.timeTaken ELSE 1,
     priority    |-> payload.priority,
     status      |-> payload.status,
     notes       |-> IF "notes" \in DOMAIN payload THEN payload.notes ELSE NULL,
     createdAt   |-> now,
     completedAt |-> IF payload.status = "Done" THEN Some(now) ELSE NULL]

\* a callback the live hook instance returned is called
Called ==
    /\ mounted
    /\ ops < MaxOps
    /\ ops' = ops + 1

addTask(payload) ==
    /\ Called
    /\ IF "id" \in DOMAIN payload
       THEN /\ tasks' = Append(tasks, NewTask(payload, payload.id))
            /\ UNCHANGED uuids
       ELSE /\ tasks' = Append(tasks, NewTask(payload, randomUUID))
            /\ uuids' = uuids + 1
    /\ UNCHANGED <<loading, error, lastDeleted, mounted, instance, inflight,
                   now, arg, res>>

\* a variant of Patched in which the patch is spread last, so that a
\* completedAt carried by the patch wins
Patched_PatchSpreadLast(t, patch) ==
    Spread(Spread(t,
                  [completedAt |->
                      IF t.status # "Done" /\ "status" \in DOMAIN patch
                                           /\ patch.status = "Done"
                      THEN Some(now)
                      ELSE t.completedAt]),
           patch)

\* the object updateTask puts in place of a task t whose id matches
Patched(t, patch) ==
    Spread(Spread(t, patch),
           [completedAt |->
               IF t.status # "Done" /\ "status" \in DOMAIN patch
                                    /\ patch.status = "Done"
               THEN Some(now)
               ELSE t.completedAt])

updateTask(id, patch) ==
    /\ Called
    /\ tasks' = [i \in 1..Len(tasks) |->
                    IF tasks[i].id = id THEN Patched(tasks[i], patch)
                                        ELSE tasks[i]]
    /\ UNCHANGED <<loading, error, lastDeleted, mounted, instance, inflight,
                   uuids, now, arg, res>>

\* prev.find(t => t.id === id) || null
FindById(s, id) ==
    IF \E i \in 1..Len(s) : s[i].id = id
    THEN Some(s[CHOOSE i \in 1..Len(s) :
                    s[i].id = id /\ \A j \in 1..(i - 1) : s[j].id # id])
    ELSE NULL

\* prev.filter(t => t.id !== id)
FilterOutId(s, id) ==
    LET notId(t) == t.id # id
    IN  SelectSeq(s, notId)

deleteTask(id) ==
    /\ Called
    /\ lastDeleted' = FindById(tasks, id)
    /\ tasks' = FilterOutId(tasks, id)
    /\ UNCHANGED <<loading, error, mounted, instance, inflight, uuids, now,
                   arg, res>>

undoDelete ==
    /\ Called
    /\ IF lastDeleted = NULL
       THEN UNCHANGED <<tasks, lastDeleted>>
       ELSE /\ tasks' = Append(tasks, lastDeleted[1])
            /\ lastDeleted' = NULL
    /\ UNCHANGED <<loading, error, mounted, instance, inflight, uuids, now,
                   arg, res>>

clearLastDeleted ==
    /\ Called
    /\ lastDeleted' = NULL
    /\ UNCHANGED <<tasks, loading, error, mounted, instance, inflight, uuids,
                   now, arg, res>>

----------------------------------------------------------------------------
(* The hook's lifecycle and its load effect *)

\* A hook instance is created: its state is initialised (useState) and its
\* effect, whose dependency list is empty, runs once and calls load().
Mount ==
    /\ ~mounted
    /\ instance < MaxMounts
    /\ mounted' = TRUE
    /\ instance' = instance + 1
    /\ tasks' = << >>
    /\ loading' = TRUE
    /\ error' = NULL
    /\ lastDeleted' = NULL
    /\ inflight' = inflight \cup {instance + 1}
    /\ UNCHANGED <<uuids, now, ops, arg, res>>

\* The instance is destroyed and its state with it (shown as the values a new
\* instance starts from). The effect returns no cleanup function, so a
\* pending load() is neither cancelled nor marked stale.
Unmount ==
    /\ mounted
    /\ mounted' = FALSE
    /\ tasks' = << >>
    /\ loading' = TRUE
    /\ error' = NULL
    /\ lastDeleted' = NULL
    /\ UNCHANGED <<instance, inflight, uuids, now, ops, arg, res>>

\* The component re-renders: the effect does not run again.
Rerender ==
    /\ mounted
    /\ UNCHANGED vars

\* a variant of LoadSettles in which setLoading(false) ends the try block
\* instead of standing in a finally block
LoadSettles_NoFinally(i, o) ==
    /\ i \in inflight
    /\ inflight' = inflight \ {i}
    /\ IF mounted /\ i = instance
       THEN CASE o = "ok"          -> /\ tasks' = FetchedData
                                      /\ loading' = FALSE
                                      /\ UNCHANGED error
              [] o = "empty"       -> /\ tasks' = SeedTasks
                                      /\ loading' = FALSE
                                      /\ UNCHANGED error
              [] o = "absent"      -> /\ tasks' = SeedTasks
                                      /\ loading' = FALSE
                                      /\ UNCHANGED error
              [] o = "unreachable" -> /\ error' = Some(NetworkError)
                                      /\ UNCHANGED <<tasks, loading>>
       ELSE UNCHANGED <<tasks, loading, error>>
    /\ UNCHANGED <<lastDeleted, mounted, instance, uuids, now, ops, arg, res>>

\* load() of instance i settles with outcome o. State setters of an instance
\* that is no longer alive have no effect.
LoadSettles(i, o) ==
    /\ i \in inflight
    /\ inflight' = inflight \ {i}
    /\ IF mounted /\ i = instance
       THEN /\ loading' = FALSE
            /\ CASE o = "ok"          -> tasks' = FetchedData /\ UNCHANGED error
                 [] o = "empty"       -> /\ tasks' = SeedTasks
                                         /\ UNCHANGED error
                 [] o = "absent"      -> /\ tasks' = SeedTasks
                                         /\ UNCHANGED error
                 [] o = "unreachable" -> /\ error' = Some(NetworkError)
                                         /\ UNCHANGED tasks
       ELSE UNCHANGED <<tasks, loading, error>>
    /\ UNCHANGED <<lastDeleted, mounted, instance, uuids, now, ops, arg, res>>

Tick ==
    /\ now < MaxNow
    /\ now' = now + 1
    /\ UNCHANGED <<tasks, loading, error, lastDeleted, mounted, instance,
                   inflight, uuids, ops, arg, res>>

----------------------------------------------------------------------------
\* no hook instance has been created yet
StoreIdle ==
    /\ tasks = << >>
    /\ loading = TRUE
    /\ error = NULL
    /\ lastDeleted = NULL
    /\ mounted = FALSE
    /\ instance = 0
    /\ inflight = {}
    /\ uuids = 0
    /\ now = 1
    /\ ops = 0

Init ==
    /\ StoreIdle
    /\ arg = << >>
    /\ res = << >>

Next ==
    \/ \E p \in Payloads : addTask(p)
    \/ \E id \in TargetIds, p \in Patches : updateTask(id, p)
    \/ \E id \in TargetIds : deleteTask(id)
    \/ undoDelete
    \/ clearLastDeleted
    \/ Mount
    \/ Unmount
    \/ Rerender
    \/ \E i \in 1..MaxMounts, o \in Outcomes : LoadSettles(i, o)
    \/ Tick

Spec == Init /\ [][Next]_vars

----------------------------------------------------------------------------
(* Ranking: computeROI, computePriorityWeight, withDerived, sortTasks *)

\* Lists of at most n elements of S
SeqsUpTo(S, n) == UNION {[1..k -> S] : k \in 0..n}

\* a / b rounded to the nearest integer, ties away from zero (b > 0): the
\* rounding of Number.prototype.toFixed
RoundDiv(a, b) ==
    IF a >= 0 THEN (2 * a + b) \div (2 * b)
              ELSE -((2 * (-a) + b) \div (2 * b))

\* computeROI: null when timeTaken <= 0, else revenue / timeTaken rounded to
\* two decimals. A ROI is held in hundredths. (Every number of the model is
\* finite, so the Number.isFinite tests pass.)
computeROI(revenue, timeTaken) ==
    IF timeTaken <= 0 THEN NULL
    ELSE Some(RoundDiv(revenue * 100, timeTaken))

computePriorityWeight(priority) ==
    CASE priority = "High"   -> 3
      [] priority = "Medium" -> 2
      [] OTHER               -> 1

withDerived(task) ==
    Spread(task, [roi |-> computeROI(task.revenue, task.timeTaken),
                  priorityWeight |-> computePriorityWeight(task.priority)])

\* The titles explored, in the order of the locale's collation: lower case
\* before upper case of the same letter, letters in alphabetical order.
\* (In the order of UTF-16 code units "Beta" comes before "alpha".)
CollationOrder == << "alpha", "Alpha", "Beta" >>

RankIn(order, title) == CHOOSE k \in 1..Len(order) : order[k] = title

Sign(n) == IF n < 0 THEN -1 ELSE IF n > 0 THEN 1 ELSE 0

\* a.localeCompare(b): negative, zero or positive
localeCompare(a, b) == Sign(RankIn(CollationOrder, a) - RankIn(CollationOrder, b))

\* a.roi ?? -1, in hundredths
RoiOrMinusOne(d) == IF d.roi = NULL THEN -100 ELSE d.roi[1]

\* a variant of the comparator without the title tie-breaker
compareTasks_NoTieBreak(a, b) ==
    IF RoiOrMinusOne(b) # RoiOrMinusOne(a)
    THEN RoiOrMinusOne(b) - RoiOrMinusOne(a)
    ELSE b.priorityWeight - a.priorityWeight

\* the comparator sortTasks hands to Array.prototype.sort
compareTasks(a, b) ==
    IF RoiOrMinusOne(b) # RoiOrMinusOne(a)
    THEN RoiOrMinusOne(b) - RoiOrMinusOne(a)
    ELSE IF b.priorityWeight # a.priorityWeight
         THEN b.priorityWeight - a.priorityWeight
         ELSE localeCompare(a.title, b.title)

\* Array.prototype.sort is stable: x goes after every element that does not
\* compare greater than it
RECURSIVE InsertSorted(_, _)
InsertSorted(x, s) ==
    IF s = << >> THEN << x >>
    ELSE IF compareTasks(x, Head(s)) < 0
         THEN << x >> \o s
         ELSE << Head(s) >> \o InsertSorted(x, Tail(s))

RECURSIVE SortFrom(_, _)
SortFrom(s, acc) ==
    IF s = << >> THEN acc
    ELSE SortFrom(Tail(s), InsertSorted(Head(s), acc))

\* sortTasks: a sorted copy of the list
sortTasks(ts) == SortFrom(ts, << >>)

\* the useMemo of the hook
derivedSorted == sortTasks([i \in 1..Len(tasks) |-> withDerived(tasks[i])])

\* Tasks handed to the ranking functions
SortTasksDomain ==
    [id : {"x"}, title : {"alpha", "Beta"}, revenue : {-300, 100},
     timeTaken : {0, 3}, priority : {"High", "Low"}, status : {"Todo"},
     notes : {NULL}, createdAt : {1}, completedAt : {NULL}]

SortInit ==
    /\ StoreIdle
    /\ \E ts \in SeqsUpTo(SortTasksDomain, MaxSortLen) :
           arg = [i \in 1..Len(ts) |-> withDerived(ts[i])]
    /\ res = NULL

\* sortTasks(arg) is called: res records the argument as it was before the
\* call and the list returned; arg is the caller's list after the call
CallSortTasks ==
    /\ res = NULL
    /\ res' = [input |-> arg, output |-> sortTasks(arg)]
    /\ arg' = arg
    /\ UNCHANGED storeVars

\* the list sortTasks returned is sorted again
SortAgain ==
    /\ res # NULL
    /\ arg' = res.output
    /\ res' = [input |-> res.output, output |-> sortTasks(res.output)]
    /\ UNCHANGED storeVars

SortNext == CallSortTasks \/ SortAgain

SortSpec == SortInit /\ [][SortNext]_vars

----------------------------------------------------------------------------
(* Analytics: computeFunnel *)

\* The JavaScript quotient n / d of two non-negative integers, held as the
\* fraction [num, den]; den = 0 stands for NaN (0 / 0) or Infinity (n / 0).
Quotient(n, d) == [num |-> n, den |-> d]

\* the number 0
Zero == [num |-> 0, den |-> 1]

\* array.filter(t => t.status === st).length
CountStatus(ts, st) == Cardinality({i \in 1..Len(ts) : ts[i].status = st})

\* a variant of computeFunnel that divides without testing the denominators
computeFunnel_Unguarded(ts) ==
    LET todo       == CountStatus(ts, "Todo")
        inProgress == CountStatus(ts, "In Progress")
        done       == CountStatus(ts, "Done")
        base       == todo + inProgress + done
    IN  [todo |-> todo, inProgress |-> inProgress, done |-> done,
         conversionTodoToInProgress |-> Quotient(inProgress + done, base),
         conversionInProgressToDone |-> Quotient(done, inProgress)]

computeFunnel(ts) ==
    LET todo       == CountStatus(ts, "Todo")
        inProgress == CountStatus(ts, "In Progress")
        done       == CountStatus(ts, "Done")
        base       == todo + inProgress + done
    IN  [todo |-> todo, inProgress |-> inProgress, done |-> done,
         conversionTodoToInProgress |->
             IF base # 0 THEN Quotient(inProgress + done, base) ELSE Zero,
         conversionInProgressToDone |->
             IF inProgress # 0 THEN Quotient(done, inProgress) ELSE Zero]

\* Tasks handed to computeFunnel
FunnelTasksDomain ==
    [id : {"x"}, title : {"Alpha"}, revenue : {100}, timeTaken : {1},
     priority : {"High"}, status : {"Todo", "In Progress", "Done"},
     notes : {NULL}, createdAt : {1}, completedAt : {NULL}]

FunnelInit ==
    /\ StoreIdle
    /\ arg \in SeqsUpTo(FunnelTasksDomain, MaxFunnelLen)
    /\ res = NULL

\* computeFunnel(arg) is called
CallComputeFunnel ==
    /\ res = NULL
    /\ res' = [input |-> arg, output |-> computeFunnel(arg)]
    /\ UNCHANGED <<arg, storeVars>>

\* the caller appends a task to its list and asks again
FunnelMore ==
    /\ res # NULL
    /\ Len(arg) < MaxFunnelLen
    /\ \E t \in FunnelTasksDomain :
          /\ arg' = Append(arg, t)
          /\ res' = [input |-> arg', output |-> computeFunnel(arg')]
    /\ UNCHANGED storeVars

FunnelNext == CallComputeFunnel \/ FunnelMore

FunnelSpec == FunnelInit /\ [][FunnelNext]_vars

----------------------------------------------------------------------------
(* Analytics: getWeekNumber, computeThroughputByWeek *)

\* A Date is held as its UTC day, counted from Monday 2024-01-01 (day 0):
\* getWeekNumber drops the time of day. The years the model knows:
YearStart(y) ==
    CASE y = 2024 -> 0
      [] y = 2025 -> 366
      [] y = 2026 -> 731
      [] y = 2027 -> 1096

\* d.getUTCFullYear()
getUTCFullYear(d) == CHOOSE y \in 2024..2026 : YearStart(y) <= d /\ d < YearStart(y + 1)

\* d.getUTCDay(): 0 is Sunday
getUTCDay(d) == (d + 1) % 7

\* Math.round(n / 7) for an integer n
RoundWeeks(n) == (2 * n + 7) \div 14

getWeekNumber(d) ==
    LET dayNr         == (getUTCDay(d) + 6) % 7
        target        == d - dayNr + 3
        firstThursday == YearStart(getUTCFullYear(target)) + 3
        diff          == target - firstThursday
    IN  1 + RoundWeeks(diff)

\* String(n) for n >= 0, as the list of its characters
DigitChars == << "0", "1", "2", "3", "4", "5", "6", "7", "8", "9" >>

RECURSIVE NumberToString(_)
NumberToString(n) ==
    IF n < 10 THEN << DigitChars[n + 1] >>
    ELSE NumberToString(n \div 10) \o << DigitChars[(n % 10) + 1] >>

\* `${d.getUTCFullYear()}-W${getWeekNumber(d)}`
weekKey(d) ==
    NumberToString(getUTCFullYear(d)) \o << "-", "W" >>
        \o NumberToString(getWeekNumber(d))

\* the characters of a week key in the order of the locale's collation
CharOrder == << "-", "0", "1", "2", "3", "4", "5", "6", "7", "8", "9", "W" >>

\* a.localeCompare(b) for two week keys: the first character that differs
\* decides, and a proper prefix comes first
RECURSIVE compareKeys(_, _)
compareKeys(a, b) ==
    IF a = << >> /\ b = << >> THEN 0
    ELSE IF a = << >> THEN -1
    ELSE IF b = << >> THEN 1
    ELSE IF Head(a) # Head(b)
         THEN Sign(RankIn(CharOrder, Head(a)) - RankIn(CharOrder, Head(b)))
         ELSE compareKeys(Tail(a), Tail(b))

\* the Map after the forEach over the first n tasks: an entry per key, in the
\* order of first insertion
RECURSIVE weekMap(_, _)
weekMap(ts, n) ==
    IF n = 0 THEN << >>
    ELSE LET m == weekMap(ts, n - 1)
             t == ts[n]
         IN  IF t.completedAt = NULL THEN m
             ELSE LET week == weekKey(t.completedAt[1])
                  IN  IF \E i \in 1..Len(m) : m[i].week = week
                      THEN [i \in 1..Len(m) |->
                               IF m[i].week = week
                               THEN [week    |-> week,
                                     count   |-> m[i].count + 1,
                                     revenue |-> m[i].revenue + t.revenue]
                               ELSE m[i]]
                      ELSE Append(m, [week |-> week, count |-> 1,
                                      revenue |-> t.revenue])

\* .sort((a, b) => a[0].localeCompare(b[0])), a stable sort
RECURSIVE InsertByKey(_, _)
InsertByKey(x, s) ==
    IF s = << >> THEN << x >>
    ELSE IF compareKeys(x.week, Head(s).week) < 0
         THEN << x >> \o s
         ELSE << Head(s) >> \o InsertByKey(x, Tail(s))

RECURSIVE SortByKey(_, _)
SortByKey(s, acc) ==
    IF s = << >> THEN acc
    ELSE SortByKey(Tail(s), InsertByKey(Head(s), acc))

computeThroughputByWeek(ts) == SortByKey(weekMap(ts, Len(ts)), << >>)

\* The completion days explored:
\*     0  Mon 2024-01-01 (ISO week 2024-W01)
\*     7  Mon 2024-01-08 (2024-W02)      9  Wed 2024-01-10 (2024-W02)
\*    63  Mon 2024-03-04 (2024-W10)
\*   364  Mon 2024-12-30 (2025-W01)    371  Mon 2025-01-06 (2025-W02)
CompletionDays == {0, 7, 9, 63, 364, 371}

WeeklyTasksDomain ==
    [id : {"x"}, title : {"Alpha"}, revenue : {100}, timeTaken : {1},
     priority : {"High"}, status : {"Done"}, notes : {NULL}, createdAt : {0},
     completedAt : {Some(d) : d \in CompletionDays}]

WeeklyInit ==
    /\ StoreIdle
    /\ arg \in SeqsUpTo(WeeklyTasksDomain, MaxWeeklyLen)
    /\ res = NULL

\* computeThroughputByWeek(arg) is called
CallComputeThroughputByWeek ==
    /\ res = NULL
    /\ res' = [input |-> arg, output |-> computeThroughputByWeek(arg)]
    /\ UNCHANGED <<arg, storeVars>>

\* the caller appends a completed task to its list and asks again
WeeklyMore ==
    /\ res # NULL
    /\ Len(arg) < MaxWeeklyLen
    /\ \E t \in WeeklyTasksDomain :
          /\ arg' = Append(arg, t)
          /\ res' = [input |-> arg', output |-> computeThroughputByWeek(arg')]
    /\ UNCHANGED storeVars

WeeklyNext == CallComputeThroughputByWeek \/ WeeklyMore

WeeklySpec == WeeklyInit /\ [][WeeklyNext]_vars

----------------------------------------------------------------------------
(* Properties of the store *)

InList(t, s) == \E j \in 1..Len(s) : s[j] = t

KnownId(id) == \E i \in 1..Len(tasks) : tasks[i].id = id

UniqueIds(s) == \A i, j \in 1..Len(s) : s[i].id = s[j].id => i = j

\* C1: for every task A of the list, deleteTask(A.id) removes A and leaves A
\* in the last-deleted slot, whatever the slot held; undoDelete with a pending
\* task appends exactly that task at the end and empties the slot; undoDelete
\* with an empty slot changes neither the list nor the slot.
C1_DeleteThenUndo ==
    [][ /\ \A i \in 1..Len(tasks) :
              deleteTask(tasks[i].id) =>
                  /\ ~InList(tasks[i], tasks')
                  /\ lastDeleted' = Some(tasks[i])
        /\ (undoDelete /\ lastDeleted # NULL) =>
              /\ tasks' = Append(tasks, lastDeleted[1])
              /\ lastDeleted' = NULL
        /\ (undoDelete /\ lastDeleted = NULL) =>
              UNCHANGED <<tasks, lastDeleted>> ]_vars

\* C2: updateTask and deleteTask with an id that no task of the list has
\* leave the task list and the last-deleted slot as they were.
C2_UnknownIdNoOp ==
    [][ \A id \in TargetIds :
            ~KnownId(id) =>
                /\ \A p \in Patches :
                      updateTask(id, p) => UNCHANGED <<tasks, lastDeleted>>
                /\ deleteTask(id) => UNCHANGED <<tasks, lastDeleted>> ]_vars

\* C3: in every updateTask step, a task whose status goes from a value other
\* than Done to Done gets completedAt = the current time; every other task of
\* the list, and every task under any other update, keeps the completedAt it
\* had; a completedAt that was set is never cleared.
C3_CompletedAt ==
    [][ \/ /\ Len(tasks') = Len(tasks)
           /\ \A i \in 1..Len(tasks) :
                 /\ IF tasks[i].status # "Done" /\ tasks'[i].status = "Done"
                    THEN tasks'[i].completedAt = Some(now)
                    ELSE tasks'[i].completedAt = tasks[i].completedAt
                 /\ tasks[i].completedAt # NULL =>
                        tasks'[i].completedAt # NULL
        \/ \A id \in TargetIds, p \in Patches : ~updateTask(id, p) ]_vars

\* C3 witness: a task created at tick 1 was completed by an update at tick 2
\* and then reopened by a patch that carried completedAt = undefined; it
\* still has the completion time.
C3_Witness ==
    \E i \in 1..Len(tasks) :
        /\ tasks[i].createdAt = 1
        /\ tasks[i].status = "In Progress"
        /\ tasks[i].completedAt = Some(2)

\* C4: at most one load is ever started, and at most one is in flight. (Every
\* hook instance created calls load() once, so instance counts the loads
\* started.)
C4_SingleLoad ==
    /\ instance <= 1
    /\ Cardinality(inflight) <= 1

\* C6: every task of the list has timeTaken > 0.
C6_TimeTakenPositive ==
    \A i \in 1..Len(tasks) : tasks[i].timeTaken > 0

\* C7: no two tasks of the list share an id, and no updateTask step changes
\* the id of a task.
C7_IdsUniqueImmutable ==
    [][ /\ UniqueIds(tasks')
        /\ \A id \in TargetIds, p \in Patches :
              updateTask(id, p) =>
                  \A i \in 1..Len(tasks) : tasks'[i].id = tasks[i].id ]_vars

\* the load of the live hook instance settles in this step
LiveLoadSettles ==
    /\ mounted
    /\ instance \in inflight
    /\ instance \notin inflight'

\* C8 as claimed: when the live instance's load settles, loading is false,
\* and if the resource was absent, empty or unreachable the list is the
\* generated dataset of 50 tasks.
C8_FallbackAlways ==
    [][ LiveLoadSettles =>
            \A o \in Outcomes :
                LoadSettles(instance, o) =>
                    /\ loading' = FALSE
                    /\ o \in {"absent", "empty", "unreachable"} =>
                           tasks' = SeedTasks ]_vars

\* C8 as amended: when the live instance's load settles, loading is false and
\* stays false while the instance lives; if the resource was absent or empty
\* the list is the generated dataset of 50 tasks; if it was unreachable the
\* list is left as it was and the error message is recorded.
C8_FallbackUnlessUnreachable ==
    [][ /\ LiveLoadSettles =>
              \A o \in Outcomes :
                  LoadSettles(instance, o) =>
                      /\ loading' = FALSE
                      /\ o \in {"absent", "empty"} =>
                             /\ tasks' = SeedTasks
                             /\ Len(tasks') = SeedCount
                      /\ o = "unreachable" =>
                             /\ tasks' = tasks
                             /\ error' = Some(NetworkError)
        /\ (mounted /\ mounted' /\ ~loading) => ~loading' ]_vars

\* C8 witness: the load of the live instance failed; loading is false, the
\* error is recorded and the list is not the generated dataset.
C8_Witness ==
    /\ mounted
    /\ ~loading
    /\ instance \notin inflight
    /\ error = Some(NetworkError)
    /\ tasks # SeedTasks

\* C11: the load of the live instance never discards what the user did while
\* it was pending: every task of the list when the load settles (all of them
\* put there by addTask or undoDelete since the mount) is still in the list
\* once the load has written its result.
C11_LoadKeepsMutations ==
    [][ LiveLoadSettles =>
            \A i \in 1..Len(tasks) : InList(tasks[i], tasks') ]_vars

----------------------------------------------------------------------------
(* Properties of sortTasks *)

\* the number of positions of s that hold x
Count(x, s) == Cardinality({i \in 1..Len(s) : s[i] = x})

IsPermutation(s, t) ==
    /\ Len(s) = Len(t)
    /\ \A i \in 1..Len(s) : Count(s[i], s) = Count(s[i], t)

\* a may stand before b: higher ROI (null counted as -1) first, then higher
\* priorityWeight, then the title that collates first
InRankOrder(a, b) ==
    LET ra == IF a.roi = NULL THEN -100 ELSE a.roi[1]
        rb == IF b.roi = NULL THEN -100 ELSE b.roi[1]
    IN  \/ ra > rb
        \/ ra = rb /\ a.priorityWeight > b.priorityWeight
        \/ /\ ra = rb
           /\ a.priorityWeight = b.priorityWeight
           /\ RankIn(CollationOrder, a.title) <= RankIn(CollationOrder, b.title)

Ranked(s) == \A i, j \in 1..Len(s) : i < j => InRankOrder(s[i], s[j])

\* C5: the list sortTasks returns is a permutation of its argument, of the
\* same length, in rank order (ROI descending with null as -1, then
\* priorityWeight descending, then title ascending); a list already in rank
\* order is returned in the same order; the argument is left as it was.
C5_SortTasks ==
    res # NULL =>
        /\ Len(res.output) = Len(res.input)
        /\ IsPermutation(res.output, res.input)
        /\ Ranked(res.output)
        /\ Ranked(res.input) => res.output = res.input
        /\ sortTasks(res.output) = res.output
        /\ arg = res.input

\* C5 witness: a list of three was sorted into another order, and two of its
\* tasks tie on ROI and priorityWeight and are told apart by title alone.
C5_Witness ==
    /\ res # NULL
    /\ Len(res.input) = 3
    /\ res.output # res.input
    /\ \E i \in 1..2 :
          /\ res.output[i].roi = res.output[i + 1].roi
          /\ res.output[i].priorityWeight = res.output[i + 1].priorityWeight
          /\ res.output[i].title # res.output[i + 1].title
          /\ res.output[i].roi = NULL

----------------------------------------------------------------------------
(* Properties of computeFunnel *)

\* the fraction q is a number of [0, 1]
InUnitInterval(q) == q.den > 0 /\ 0 <= q.num /\ q.num <= q.den

\* the fraction q is the number n / d (d > 0)
IsRatio(q, n, d) == q.den > 0 /\ q.num * d = n * q.den

IsZero(q) == q.den > 0 /\ q.num = 0

----------------------------------------------------------------------------
(* Properties of computeThroughputByWeek *)

\* the Monday that begins the ISO week of day d (day 0 is a Monday)
MondayOf(d) == d - (d % 7)

\* the days of the argument's tasks that were counted under the key
DaysUnder(ts, key) ==
    {ts[i].completedAt[1] : i \in {k \in 1..Len(ts) :
                                     weekKey(ts[k].completedAt[1]) = key}}

\* C10: the entries come in chronological order of week: of two entries, the
\* first holds the tasks completed in the earlier week.
C10_Chronological ==
    res # NULL =>
        \A i, j \in 1..Len(res.output) :
            i < j =>
                \A d1 \in DaysUnder(res.input, res.output[i].week),
                   d2 \in DaysUnder(res.input, res.output[j].week) :
                    MondayOf(d1) < MondayOf(d2)

====
